---- MODULE Spec2Model ----
(***************************************************************************)
(* process_xml.py: pause statistics extracted from Qualitivity XML files.  *)
(*                                                                         *)
(* The model follows process() over the XML files of the input folder,     *)
(* process_file() over the <Record/> elements of one file, and the walk    *)
(* over the <ks/> elements of one record.  The tree handed to the record   *)
(* loop is the tree after normalize_attribute (attribute names in lower    *)
(* case).  Attribute values are strings; a timestamp string is modelled by *)
(* its seconds, the digits of its fractional part and how many of them     *)
(* are written, because numpy.datetime64 derives the unit of the parsed    *)
(* value from the number of fractional digits.                             *)
(***************************************************************************)
EXTENDS Integers, Sequences, FiniteSets, TLC

VARIABLES
    input_dir,              \* the xml files read so far, each the sequence of its records
    combine,                \* the --combine switch
    pc,                     \* where process / process_file stands
    combine_df,             \* process: summary tables kept for combined.csv
    all_data_combined_df,   \* process: audit tables kept for combined-audit.csv
    output_dir,             \* the CSV files written so far
    df,                     \* tables returned by the last process_file call
    all_df,
    categorized_data,       \* process_file: summary rows of the current file
    all_pauses_data,        \* process_file: audit rows of the current file
    duration_ms,            \* locals of the record loop
    last_milestone,
    pause_counts,
    keystrokes_count,
    valid_keystroke_count,
    ki,                     \* number of <ks/> elements the walk has consumed
    call,                   \* arguments of the latest categorize_pause call of the record
    ncalls,                 \* number of categorize_pause calls made for the record
    audit_base,             \* audit rows of the file that precede those of the record
    keystroke,              \* the event handed to valid_keystroke on its own
    valid                   \* and what valid_keystroke answered

vars == <<input_dir, combine, pc, combine_df, all_data_combined_df, output_dir,
          df, all_df, categorized_data, all_pauses_data, duration_ms,
          last_milestone, pause_counts, keystrokes_count, valid_keystroke_count,
          ki, call, ncalls, audit_base, keystroke, valid>>

outputs == <<combine_df, all_data_combined_df, output_dir, df, all_df>>
locals == <<duration_ms, last_milestone, pause_counts, keystrokes_count,
             valid_keystroke_count, ki, call, ncalls, audit_base>>
filter == <<keystroke, valid>>

----------------------------------------------------------------------------
(* Bounds of the model.                                                    *)

MaxRecords == 2     \* Spec: <Record/> elements of the file
MaxEvents == 3      \* Spec: <ks/> elements of the file, all records together
MaxFiles == 2       \* SpecProcess: xml files in the input folder
MaxDirRecords == 2  \* SpecProcess: <Record/> elements, all files together
MaxDirEvents == 2   \* SpecProcess: <ks/> elements, all records together
MaxCalls == 2       \* SpecPause: categorize_pause calls on one accumulator

----------------------------------------------------------------------------
(* Timestamps.                                                             *)

RECURSIVE Pow10(_)
Pow10(e) == IF e <= 0 THEN 1 ELSE 10 * Pow10(e - 1)

Max(a, b) == IF a >= b THEN a ELSE b

\* The text "…T10:00:<sec>.<frac>", frac written with <digits> digits.
TS(s, f, d) == [sec |-> s, frac |-> f, digits |-> d, iso |-> TRUE]
Garbled == [sec |-> 0, frac |-> 0, digits |-> 0, iso |-> FALSE]

\* np.datetime64(text): the unit is the coarsest of s, ms, us, ns that holds
\* the written digits; unit is kept as its exponent (0, 3, 6, 9).
datetime64(t) ==
    LET e == IF t.digits = 0 THEN 0
             ELSE IF t.digits <= 3 THEN 3
             ELSE IF t.digits <= 6 THEN 6 ELSE 9
    IN  [n |-> t.sec * Pow10(e) + t.frac * Pow10(e - t.digits), unit |-> e]

\* a - b on datetime64 values: both are cast to the finer unit first.
Minus(a, b) ==
    LET e == Max(a.unit, b.unit)
    IN  [n |-> a.n * Pow10(e - a.unit) - b.n * Pow10(e - b.unit), unit |-> e]

\* timedelta64.astype(int): the count, in whatever unit the delta has.
astype_int(d) == d.n

----------------------------------------------------------------------------
(* The accumulator and the pause classifier.                               *)

create_pause_counts_dict ==
    [duration_300 |-> 0, count_300 |-> 0, duration_500 |-> 0, count_500 |-> 0,
     duration_1000 |-> 0, count_1000 |-> 0, total_pause_ms |-> 0,
     total_duration |-> 0]

\* a classifier that files a pause under its highest bucket only
categorize_exclusive(counts, pause_ms) ==
    LET c == IF pause_ms >= 1000
             THEN [counts EXCEPT !.duration_1000 = @ + pause_ms, !.count_1000 = @ + 1]
             ELSE IF pause_ms >= 500
             THEN [counts EXCEPT !.duration_500 = @ + pause_ms, !.count_500 = @ + 1]
             ELSE IF pause_ms >= 300
             THEN [counts EXCEPT !.duration_300 = @ + pause_ms, !.count_300 = @ + 1]
             ELSE counts
    IN  [c EXCEPT !.total_duration = @ + pause_ms]

\* a classifier that clamps a negative pause to zero
categorize_clamped(counts, pause_ms) ==
    LET g == Max(pause_ms, 0)
        c1 == IF g >= 300
              THEN [counts EXCEPT !.duration_300 = @ + g, !.count_300 = @ + 1]
              ELSE counts
        c2 == IF g >= 500
              THEN [c1 EXCEPT !.duration_500 = @ + g, !.count_500 = @ + 1]
              ELSE c1
        c3 == IF g >= 1000
              THEN [c2 EXCEPT !.duration_1000 = @ + g, !.count_1000 = @ + 1]
              ELSE c2
    IN  [c3 EXCEPT !.total_duration = @ + g]

categorize_pause(counts, pause_ms) ==
    LET c1 == IF pause_ms >= 300
              THEN [counts EXCEPT !.duration_300 = @ + pause_ms, !.count_300 = @ + 1]
              ELSE counts
        c2 == IF pause_ms >= 500
              THEN [c1 EXCEPT !.duration_500 = @ + pause_ms, !.count_500 = @ + 1]
              ELSE c1
        c3 == IF pause_ms >= 1000
              THEN [c2 EXCEPT !.duration_1000 = @ + pause_ms, !.count_1000 = @ + 1]
              ELSE c2
    IN  [c3 EXCEPT !.total_duration = @ + pause_ms]

----------------------------------------------------------------------------
(* The event filter.  attrib[...] raises KeyError on a missing attribute;  *)
(* `and` evaluates left to right and stops at the first falsy operand.     *)

Has(el, a) == a \in DOMAIN el.attrib

FilterAttributes ==
    {"origin", "system", "key", "selection", "text", "shift", "ctrl", "alt"}

\* a filter that reads the system flag as a boolean: only 'True' counts
valid_keystroke_flag(k) ==
    LET ks == k.attrib IN
    IF ~(FilterAttributes \subseteq DOMAIN ks) THEN "KeyError"
    ELSE IF ks.origin # "" /\ ks.system = "True" /\ ks.key = "" THEN "False"
    ELSE IF /\ ks.selection = "" /\ ks.text = "" /\ ks.key = ""
            /\ ks.shift = "False" /\ ks.ctrl = "False" /\ ks.alt = "False"
         THEN "False"
    ELSE "True"

valid_keystroke(k) ==
    LET ks == k.attrib
        second ==
            IF ~Has(k, "selection") THEN "KeyError"
            ELSE IF ks.selection # "" THEN "True"
            ELSE IF ~Has(k, "text") THEN "KeyError"
            ELSE IF ks.text # "" THEN "True"
            ELSE IF ~Has(k, "key") THEN "KeyError"
            ELSE IF ks.key # "" THEN "True"
            ELSE IF ~Has(k, "shift") THEN "KeyError"
            ELSE IF ks.shift # "False" THEN "True"
            ELSE IF ~Has(k, "ctrl") THEN "KeyError"
            ELSE IF ks.ctrl # "False" THEN "True"
            ELSE IF ~Has(k, "alt") THEN "KeyError"
            ELSE IF ks.alt # "False" THEN "True"
            ELSE "False"
    IN  IF ~Has(k, "origin") THEN "KeyError"
        ELSE IF ks.origin = "" THEN second
        ELSE IF ~Has(k, "system") THEN "KeyError"
        ELSE IF ks.system = "" THEN second
        ELSE IF ~Has(k, "key") THEN "KeyError"
        ELSE IF ks.key = "" THEN "False"
        ELSE second

----------------------------------------------------------------------------
(* Sample input.  Records start at 10:00:00.200.                           *)

KeyAttrib(created) ==
    [origin |-> "", system |-> "False", key |-> "a", selection |-> "",
     text |-> "a", shift |-> "False", ctrl |-> "False", alt |-> "False",
     created |-> created]

\* a typed character
KeyKs(created) == [attrib |-> KeyAttrib(created)]

\* an event raised by the application itself: origin set, system set, no key
SystemKs ==
    [attrib |-> [KeyAttrib(TS(0, 700, 3)) EXCEPT
                    !.origin = "app", !.system = "True", !.key = "", !.text = ""]]

\* an event that carries nothing; its timestamp is unreadable
BlankKs ==
    [attrib |-> [KeyAttrib(Garbled) EXCEPT !.key = "", !.text = ""]]

\* a typed character whose element lacks the origin attribute
NoOriginKs ==
    [attrib |-> [a \in DOMAIN KeyAttrib(Garbled) \ {"origin"} |->
                    KeyAttrib(TS(0, 600, 3))[a]]]

\* events the walk gets past
KsSamples ==
    { KeyKs(TS(0, 600, 3)),     \* 400 ms after the start
      KeyKs(TS(0, 100, 3)),     \* before the start: timestamps out of order
      KeyKs(TS(0, 6001, 4)),    \* written with four fractional digits
      SystemKs, BlankKs }

\* events the walk fails on: a typed character with an unreadable timestamp,
\* and an element the filter cannot read
BadKsSamples == { KeyKs(Garbled), NoOriginKs }

RecordAttrib(started, stopped) ==
    [started |-> started, stopped |-> stopped, id |-> "r1", segmentid |-> "s1",
     activemiliseconds |-> "42"]

Started == TS(0, 200, 3)

\* 100 ms and 1200 ms after the start
StoppedSamples == { TS(0, 300, 3), TS(1, 400, 3) }

\* up to n events; what follows an event the walk fails on is never read, so
\* such an event is the last of its record
KsSeqs(n) ==
    LET good(m) == UNION { [1..k -> KsSamples] : k \in 0..m }
    IN  good(n) \cup
        { Append(kss, bad) : kss \in good(n - 1), bad \in BadKsSamples }

\* records whose header is readable, with up to n events, and two records
\* whose header is not: no stopped attribute, an unreadable started
RecordSamples(n) ==
    { [attrib |-> RecordAttrib(Started, e), ks |-> kss] :
        e \in StoppedSamples, kss \in KsSeqs(n) }
    \cup
    { [attrib |-> [a \in {"started", "id", "segmentid", "activemiliseconds"} |->
                      RecordAttrib(Started, Started)[a]], ks |-> <<>>],
      [attrib |-> RecordAttrib(Garbled, TS(1, 100, 3)), ks |-> <<>>] }

RECURSIVE SumLen(_)
SumLen(seqs) ==
    IF seqs = <<>> THEN 0 ELSE Len(Head(seqs)) + SumLen(Tail(seqs))

TotalRecords == SumLen(input_dir)

RECURSIVE Flatten(_)
Flatten(seqs) ==
    IF seqs = <<>> THEN <<>> ELSE Head(seqs) \o Flatten(Tail(seqs))

TotalEvents == SumLen([i \in DOMAIN Flatten(input_dir) |-> Flatten(input_dir)[i].ks])

----------------------------------------------------------------------------
(* process_file: the record loop.                                          *)

CurFile == Len(input_dir)
records == input_dir[CurFile]
record == records[Len(records)]
keystrokes == record.ks

record_started_dt == datetime64(record.attrib.started)
record_ended_dt == datetime64(record.attrib.stopped)

None == <<>>
Some(v) == <<v>>

NoCall == [made |-> FALSE, counts |-> create_pause_counts_dict, pause_ms |-> 0]

\* a loop that swallows the exception and hands back the rows gathered so far
RaiseSwallowed ==
    /\ pc' = "returned"
    /\ df' = categorized_data
    /\ all_df' = all_pauses_data
    /\ UNCHANGED <<combine, combine_df, all_data_combined_df, output_dir,
                   categorized_data, all_pauses_data, locals, filter>>

\* an exception leaves process_file and process: neither catches anything
Raise ==
    /\ pc' = "raised"
    /\ UNCHANGED <<combine, outputs, categorized_data, all_pauses_data, locals, filter>>

\* lines 116-133: the attributes read and the timestamps parsed before the walk
HeaderRaises(rec) ==
    \/ ~Has(rec, "started")
    \/ ~rec.attrib.started.iso
    \/ ~Has(rec, "stopped")
    \/ ~rec.attrib.stopped.iso
    \/ ~Has(rec, "id")
    \/ ~Has(rec, "segmentid")
    \/ ~Has(rec, "activemiliseconds")

AuditRow(pause, notes) ==
    [record_id |-> record.attrib.id, segment_id |-> record.attrib.segmentid,
     pause |-> pause, notes |-> notes]

\* lines 181-184
SummaryRow(counts, kcount) ==
    [record_id |-> record.attrib.id, segment_id |-> record.attrib.segmentid,
     duration_300 |-> counts.duration_300, count_300 |-> counts.count_300,
     duration_500 |-> counts.duration_500, count_500 |-> counts.count_500,
     duration_1000 |-> counts.duration_1000, count_1000 |-> counts.count_1000,
     keystrokes |-> kcount, active_ms |-> record.attrib.activemiliseconds,
     record_duration |-> duration_ms, total_duration |-> counts.total_duration]

\* one call categorize_pause(pause_counts, pause_ms)
Categorize(g) ==
    /\ pause_counts' = categorize_pause(pause_counts, g)
    /\ call' = [made |-> TRUE, counts |-> pause_counts, pause_ms |-> g]
    /\ ncalls' = ncalls + 1

\* an audit trail that leaves out the rows without a duration
AuditDropsOmitted(pause, notes) ==
    IF pause = None
    THEN UNCHANGED all_pauses_data
    ELSE all_pauses_data' = Append(all_pauses_data, AuditRow(pause, notes))

\* all_pauses_data.append([record_id, segment_id, pause, notes])
Audit(pause, notes) ==
    all_pauses_data' = Append(all_pauses_data, AuditRow(pause, notes))

\* a record loop without the special case of line 149
NoSingleSystemKs == FALSE

\* line 149: exactly one event, and the filter rejects it
SingleSystemKs ==
    keystrokes_count = 1 /\ valid_keystroke(keystrokes[1]) = "False"

\* a walk that forgets to move the milestone
MilestoneKept(created_dt) == last_milestone

\* line 164: the milestone after a valid event
NextMilestone(created_dt) == created_dt

\* a walk that always classifies the pause up to the stop
TrailingAlways == TRUE

\* line 172: is there a pause between the last valid event and the stop
HasValid == valid_keystroke_count > 0

ProcessFile ==
    /\ pc = "process"
    /\ Len(input_dir) < MaxFiles
    /\ input_dir' = Append(input_dir, <<>>)
    /\ categorized_data' = <<>>
    /\ all_pauses_data' = <<>>
    /\ pc' = "records"
    /\ UNCHANGED <<combine, outputs, locals, filter>>

\* ElementTree.parse on a file that is not well-formed XML
ParseError ==
    /\ pc = "process"
    /\ Len(input_dir) < MaxFiles
    /\ input_dir' = Append(input_dir, <<>>)
    /\ Raise

\* lines 113-144, on the next record of the file: at most maxRecords records
\* and maxEvents events are read in all
BeginRecord(maxRecords, maxEvents) ==
    /\ pc = "records"
    /\ TotalRecords < maxRecords
    /\ \E rec \in RecordSamples(maxEvents - TotalEvents) :
        /\ input_dir' = [input_dir EXCEPT ![CurFile] = Append(@, rec)]
        /\ IF HeaderRaises(rec)
           THEN Raise
           ELSE /\ duration_ms' = astype_int(Minus(datetime64(rec.attrib.stopped),
                                                   datetime64(rec.attrib.started)))
                /\ last_milestone' = datetime64(rec.attrib.started)
                /\ pause_counts' = create_pause_counts_dict
                /\ keystrokes_count' = Len(rec.ks)
                /\ valid_keystroke_count' = 0
                /\ ki' = 0
                /\ call' = NoCall
                /\ ncalls' = 0
                /\ audit_base' = Len(all_pauses_data)
                /\ pc' = "branch"
                /\ UNCHANGED <<combine, outputs, categorized_data, all_pauses_data, filter>>

NoKeystrokes ==
    /\ pc = "branch"
    /\ keystrokes_count = 0
    /\ Categorize(duration_ms)
    /\ Audit(Some(duration_ms), "No ks")
    /\ categorized_data' = Append(categorized_data, SummaryRow(pause_counts', keystrokes_count))
    /\ pc' = "records"
    /\ UNCHANGED <<input_dir, combine, outputs, duration_ms, last_milestone,
                   keystrokes_count, valid_keystroke_count, ki, audit_base, filter>>

OneSystemKeystroke ==
    /\ pc = "branch"
    /\ keystrokes_count # 0
    /\ SingleSystemKs
    /\ Categorize(duration_ms)
    /\ Audit(Some(duration_ms), "1 system ks omitted")
    /\ keystrokes_count' = 0
    /\ categorized_data' = Append(categorized_data, SummaryRow(pause_counts', keystrokes_count'))
    /\ pc' = "records"
    /\ UNCHANGED <<input_dir, combine, outputs, duration_ms, last_milestone,
                   valid_keystroke_count, ki, audit_base, filter>>

\* line 149 with an event that lacks an attribute the filter reads
BranchRaises ==
    /\ pc = "branch"
    /\ keystrokes_count = 1
    /\ valid_keystroke(keystrokes[1]) = "KeyError"
    /\ UNCHANGED input_dir
    /\ Raise

EnterWalk ==
    /\ pc = "branch"
    /\ keystrokes_count # 0
    /\ ~(keystrokes_count = 1 /\ valid_keystroke(keystrokes[1]) = "KeyError")
    /\ ~SingleSystemKs
    /\ pc' = "walk"
    /\ UNCHANGED <<input_dir, combine, outputs, categorized_data, all_pauses_data,
                   locals, filter>>

WalkValid ==
    /\ pc = "walk"
    /\ ki < Len(keystrokes)
    /\ LET ks == keystrokes[ki + 1] IN
        /\ valid_keystroke(ks) = "True"
        /\ Has(ks, "created")
        /\ ks.attrib.created.iso
        /\ LET created_dt == datetime64(ks.attrib.created)
               diff_ms == astype_int(Minus(created_dt, last_milestone))
           IN  /\ valid_keystroke_count' = valid_keystroke_count + 1
               /\ last_milestone' = NextMilestone(created_dt)
               /\ Categorize(diff_ms)
               /\ Audit(Some(diff_ms), "")
    /\ ki' = ki + 1
    /\ UNCHANGED <<input_dir, combine, pc, outputs, categorized_data, duration_ms,
                   keystrokes_count, audit_base, filter>>

WalkOmitted ==
    /\ pc = "walk"
    /\ ki < Len(keystrokes)
    /\ valid_keystroke(keystrokes[ki + 1]) = "False"
    /\ Audit(None, "Omitted ks")
    /\ ki' = ki + 1
    /\ UNCHANGED <<input_dir, combine, pc, outputs, categorized_data, duration_ms,
                   last_milestone, pause_counts, keystrokes_count,
                   valid_keystroke_count, call, ncalls, audit_base, filter>>

\* the filter meets a missing attribute, or a valid event has no readable created
WalkRaises ==
    /\ pc = "walk"
    /\ ki < Len(keystrokes)
    /\ LET ks == keystrokes[ki + 1] IN
        \/ valid_keystroke(ks) = "KeyError"
        \/ /\ valid_keystroke(ks) = "True"
           /\ (~Has(ks, "created") \/ ~ks.attrib.created.iso)
    /\ UNCHANGED input_dir
    /\ Raise

\* lines 172-187: the pause up to the stop of the record, and the summary row
EndRecord ==
    /\ pc = "walk"
    /\ ki = Len(keystrokes)
    /\ IF HasValid
       THEN LET last_pause_ms == astype_int(Minus(record_ended_dt, last_milestone))
            IN  /\ Categorize(last_pause_ms)
                /\ Audit(Some(last_pause_ms), "")
                /\ keystrokes_count' = valid_keystroke_count
       ELSE UNCHANGED <<pause_counts, call, ncalls, all_pauses_data, keystrokes_count>>
    /\ categorized_data' = Append(categorized_data, SummaryRow(pause_counts', keystrokes_count'))
    /\ pc' = "records"
    /\ UNCHANGED <<input_dir, combine, outputs, duration_ms, last_milestone,
                   valid_keystroke_count, ki, audit_base, filter>>

\* lines 190-192: no record is left
ReturnTables ==
    /\ pc = "records"
    /\ df' = categorized_data
    /\ all_df' = all_pauses_data
    /\ pc' = "returned"
    /\ UNCHANGED <<input_dir, combine, combine_df, all_data_combined_df, output_dir,
                   categorized_data, all_pauses_data, locals, filter>>

----------------------------------------------------------------------------
(* process: what becomes of the tables.                                    *)

\* df.insert(0, 'File', file)
InsertFile(table, file) == [i \in DOMAIN table |-> [File |-> file] @@ table[i]]

\* pd.concat(tables, ignore_index=True), of a list that is not empty
RECURSIVE Concat(_)
Concat(tables) ==
    IF tables = <<>> THEN <<>> ELSE Head(tables) \o Concat(Tail(tables))

Csv(name, table) == [name |-> name, table |-> table]

Collect ==
    /\ pc = "returned"
    /\ combine
    /\ combine_df' = Append(combine_df, InsertFile(df, CurFile))
    /\ all_data_combined_df' = Append(all_data_combined_df, InsertFile(all_df, CurFile))
    /\ pc' = "process"
    /\ UNCHANGED <<input_dir, combine, output_dir, df, all_df, categorized_data,
                   all_pauses_data, locals, filter>>

WriteCsv ==
    /\ pc = "returned"
    /\ ~combine
    /\ output_dir' = output_dir \cup { Csv(<<CurFile, "csv">>, df),
                                       Csv(<<CurFile, "audit">>, all_df) }
    /\ pc' = "process"
    /\ UNCHANGED <<input_dir, combine, combine_df, all_data_combined_df, df, all_df,
                   categorized_data, all_pauses_data, locals, filter>>

WriteCombined ==
    /\ pc = "process"
    /\ combine
    /\ combine_df # <<>>
    /\ output_dir' = output_dir \cup { Csv(<<0, "combined">>, Concat(combine_df)),
                                       Csv(<<0, "combined-audit">>,
                                           Concat(all_data_combined_df)) }
    /\ pc' = "done"
    /\ UNCHANGED <<input_dir, combine, combine_df, all_data_combined_df, df, all_df,
                   categorized_data, all_pauses_data, locals, filter>>

\* pd.concat([]) raises ValueError: there was no xml file to combine
ConcatRaises ==
    /\ pc = "process"
    /\ combine
    /\ combine_df = <<>>
    /\ UNCHANGED input_dir
    /\ Raise

Exit ==
    /\ pc = "process"
    /\ ~combine
    /\ pc' = "done"
    /\ UNCHANGED <<input_dir, combine, outputs, categorized_data, all_pauses_data,
                   locals, filter>>

InitProcess ==
    /\ input_dir = <<>>
    /\ combine \in BOOLEAN
    /\ pc = "process"
    /\ combine_df = <<>>
    /\ all_data_combined_df = <<>>
    /\ output_dir = {}
    /\ df = <<>>
    /\ all_df = <<>>
    /\ categorized_data = <<>>
    /\ all_pauses_data = <<>>
    /\ duration_ms = 0
    /\ last_milestone = datetime64(Started)
    /\ pause_counts = create_pause_counts_dict
    /\ keystrokes_count = 0
    /\ valid_keystroke_count = 0
    /\ ki = 0
    /\ call = NoCall
    /\ ncalls = 0
    /\ audit_base = 0
    /\ keystroke = BlankKs
    /\ valid = "None"

BeginDirRecord == BeginRecord(MaxDirRecords, MaxDirEvents)

NextProcess ==
    \/ ProcessFile
    \/ ParseError
    \/ BeginDirRecord
    \/ NoKeystrokes
    \/ OneSystemKeystroke
    \/ BranchRaises
    \/ EnterWalk
    \/ WalkValid
    \/ WalkOmitted
    \/ WalkRaises
    \/ EndRecord
    \/ ReturnTables
    \/ Collect
    \/ WriteCsv
    \/ WriteCombined
    \/ ConcatRaises
    \/ Exit

\* process() over the xml files of the input folder
SpecProcess == InitProcess /\ [][NextProcess]_vars

----------------------------------------------------------------------------
(* One call of process_file, from the record loop on: the file is parsed,  *)
(* its attributes are normalized, and no row is gathered yet.              *)

Init ==
    /\ input_dir = << <<>> >>
    /\ combine = FALSE
    /\ pc = "records"
    /\ combine_df = <<>>
    /\ all_data_combined_df = <<>>
    /\ output_dir = {}
    /\ df = <<>>
    /\ all_df = <<>>
    /\ categorized_data = <<>>
    /\ all_pauses_data = <<>>
    /\ duration_ms = 0
    /\ last_milestone = datetime64(Started)
    /\ pause_counts = create_pause_counts_dict
    /\ keystrokes_count = 0
    /\ valid_keystroke_count = 0
    /\ ki = 0
    /\ call = NoCall
    /\ ncalls = 0
    /\ audit_base = 0
    /\ keystroke = BlankKs
    /\ valid = "None"

BeginFileRecord == BeginRecord(MaxRecords, MaxEvents)

Next ==
    \/ BeginFileRecord
    \/ NoKeystrokes
    \/ OneSystemKeystroke
    \/ BranchRaises
    \/ EnterWalk
    \/ WalkValid
    \/ WalkOmitted
    \/ WalkRaises
    \/ EndRecord
    \/ ReturnTables

Spec == Init /\ [][Next]_vars

----------------------------------------------------------------------------
(* The pause classifier on its own: calls on one accumulator, with gaps    *)
(* on both sides of every threshold.                                       *)

GapSamples == {-1500, -400, -1, 0, 299, 300, 499, 500, 999, 1000, 1500}

InitIdle ==
    /\ input_dir = <<>>
    /\ combine = FALSE
    /\ combine_df = <<>>
    /\ all_data_combined_df = <<>>
    /\ output_dir = {}
    /\ df = <<>>
    /\ all_df = <<>>
    /\ categorized_data = <<>>
    /\ all_pauses_data = <<>>
    /\ duration_ms = 0
    /\ last_milestone = datetime64(Started)
    /\ keystrokes_count = 0
    /\ valid_keystroke_count = 0
    /\ ki = 0
    /\ audit_base = 0

InitPause ==
    /\ InitIdle
    /\ pc = "classifier"
    /\ pause_counts = create_pause_counts_dict
    /\ call = NoCall
    /\ ncalls = 0
    /\ keystroke = BlankKs
    /\ valid = "None"

Classify ==
    /\ pc = "classifier"
    /\ ncalls < MaxCalls
    /\ \E g \in GapSamples : Categorize(g)
    /\ UNCHANGED <<input_dir, combine, pc, outputs, categorized_data, all_pauses_data,
                   duration_ms, last_milestone, keystrokes_count,
                   valid_keystroke_count, ki, audit_base, filter>>

SpecPause == InitPause /\ [][Classify]_vars

----------------------------------------------------------------------------
(* The event filter on its own: every combination of the attribute values  *)
(* below, and every such event with one attribute left out.                *)

FullAttribs ==
    [origin : {"", "app"}, system : {"", "True", "False"}, key : {"", "a"},
     selection : {"", "sel"}, text : {"", "t"}, shift : {"True", "False"},
     ctrl : {"True", "False"}, alt : {"True", "False"},
     created : {TS(0, 600, 3)}]

Without(attrib, a) == [b \in DOMAIN attrib \ {a} |-> attrib[b]]

FilterInputs ==
    { [attrib |-> at] : at \in FullAttribs }
    \cup
    { [attrib |-> Without(at, a)] :
        at \in FullAttribs,
        a \in {"origin", "system", "key", "selection", "text", "shift", "ctrl", "alt"} }

InitFilter ==
    /\ InitIdle
    /\ pc = "filter"
    /\ pause_counts = create_pause_counts_dict
    /\ call = NoCall
    /\ ncalls = 0
    /\ keystroke \in FilterInputs
    /\ valid = "None"

ApplyFilter ==
    /\ pc = "filter"
    /\ valid' = valid_keystroke(keystroke)
    /\ pc' = "filtered"
    /\ UNCHANGED <<input_dir, combine, outputs, categorized_data, all_pauses_data,
                   locals, keystroke>>

SpecFilter == InitFilter /\ [][ApplyFilter]_vars

----------------------------------------------------------------------------
(* What the claims speak about, read off the input and the output rows.    *)

\* the record loop has just finished the last record read
Handled == pc = "records" /\ Len(input_dir) > 0 /\ Len(records) > 0

Valid(i) == valid_keystroke(keystrokes[i]) = "True"
NValid == Cardinality({ i \in 1..Len(keystrokes) : Valid(i) })
NInvalid ==
    Cardinality({ i \in 1..Len(keystrokes) : valid_keystroke(keystrokes[i]) = "False" })

Summary == categorized_data[Len(categorized_data)]
RecordAudit == SubSeq(all_pauses_data, audit_base + 1, Len(all_pauses_data))
RecordDuration == astype_int(Minus(record_ended_dt, record_started_dt))

Buckets(c) ==
    <<c.duration_300, c.count_300, c.duration_500, c.count_500,
      c.duration_1000, c.count_1000>>

\* C1: after a record is handled, the summary's 'Total duration' equals its
\* 'Record duration' (stop - start), whatever events the record holds.
C1_DurationConservation ==
    Handled => Summary.total_duration = Summary.record_duration

\* C2: one categorize_pause call with gap g adds 1 and g to every bucket whose
\* threshold g reaches (all three from 1000, the 300 and 500 buckets from 500,
\* the 300 bucket from 300, none below 300), leaves the other buckets alone,
\* and adds g to total_duration in every case.
C2_CumulativeBuckets ==
    call.made =>
        LET g == call.pause_ms
            c0 == call.counts
            c == pause_counts
            in300 == IF g >= 300 THEN 1 ELSE 0
            in500 == IF g >= 500 THEN 1 ELSE 0
            in1000 == IF g >= 1000 THEN 1 ELSE 0
        IN  /\ c.count_300 = c0.count_300 + in300
            /\ c.duration_300 = c0.duration_300 + in300 * g
            /\ c.count_500 = c0.count_500 + in500
            /\ c.duration_500 = c0.duration_500 + in500 * g
            /\ c.count_1000 = c0.count_1000 + in1000
            /\ c.duration_1000 = c0.duration_1000 + in1000 * g
            /\ c.total_duration = c0.total_duration + g

C2_Witness ==
    /\ pc = "classifier"
    /\ ncalls = 2
    /\ call.pause_ms = 999
    /\ call.counts.count_1000 = 1
    /\ pause_counts.count_500 = 2
    /\ pause_counts.count_1000 = 1

\* C3: a handled record with N > 0 valid and M invalid events has M + N + 1
\* audit rows; a record without events has one; a record whose only event is
\* invalid has one.
C3_AuditCompleteness ==
    Handled =>
        /\ NValid > 0 => Len(RecordAudit) = NInvalid + NValid + 1
        /\ Len(keystrokes) = 0 => Len(RecordAudit) = 1
        /\ (Len(keystrokes) = 1 /\ NInvalid = 1) => Len(RecordAudit) = 1

C3_Witness ==
    /\ Handled
    /\ audit_base > 0
    /\ NValid = 2
    /\ NInvalid = 1
    /\ Len(RecordAudit) = 4

\* C4: on an event that has all its attributes, valid_keystroke answers False
\* exactly when (a) origin is non-empty, system is non-empty (truthy) and key
\* is empty, or (b) selection, text and key are empty and shift, ctrl and alt
\* are all 'False'; it answers True otherwise, so always when key is non-empty.
C4_FilterCorrectness ==
    (pc = "filtered" /\ FilterAttributes \subseteq DOMAIN keystroke.attrib) =>
        LET a == keystroke.attrib
            caseA == a.origin # "" /\ a.system # "" /\ a.key = ""
            caseB == /\ a.selection = "" /\ a.text = "" /\ a.key = ""
                     /\ a.shift = "False" /\ a.ctrl = "False" /\ a.alt = "False"
        IN  /\ valid = IF caseA \/ caseB THEN "False" ELSE "True"
            /\ a.key # "" => valid = "True"

C4_Witness ==
    /\ pc = "filtered"
    /\ FilterAttributes \subseteq DOMAIN keystroke.attrib
    /\ keystroke.attrib.origin = "app"
    /\ keystroke.attrib.system = "False"
    /\ keystroke.attrib.key = ""
    /\ keystroke.attrib.text = "t"
    /\ valid = "False"

\* C5: the 'Keystrokes' value of a handled record's summary row is the number
\* of valid events of the record.
C5_KeystrokesAreValidEvents ==
    Handled => Summary.keystrokes = NValid

\* C6: a record with no event, or with one event that is invalid, is handled
\* by a single categorize_pause call with gap stop - start, and gets exactly
\* one audit row, with that duration and the note 'No ks' or
\* '1 system ks omitted'.
C6_DegenerateRecords ==
    (Handled /\ (Len(keystrokes) = 0 \/ (Len(keystrokes) = 1 /\ NInvalid = 1))) =>
        /\ ncalls = 1
        /\ call.pause_ms = RecordDuration
        /\ Buckets(Summary) =
               Buckets(categorize_pause(create_pause_counts_dict, RecordDuration))
        /\ RecordAudit =
               << AuditRow(Some(RecordDuration),
                           IF Len(keystrokes) = 0 THEN "No ks"
                           ELSE "1 system ks omitted") >>

\* start T0, stop T0 + 100 ms, one invalid event
C6_Witness ==
    /\ Handled
    /\ Len(keystrokes) = 1
    /\ NInvalid = 1
    /\ RecordDuration = 100
    /\ Summary.keystrokes = 0
    /\ Summary.total_duration = 100
    /\ Summary.count_300 = 0
    /\ RecordAudit[1].notes = "1 system ks omitted"

\* the output tables: what process_file returned and what process keeps or wrote
FileNames == { e.name : e \in output_dir }

CompleteTables ==
    /\ pc = "returned" =>
           /\ CurFile > 0
           /\ Len(df) = Len(records)
           /\ df = categorized_data
           /\ all_df = all_pauses_data
    /\ Len(combine_df) <= CurFile
    /\ Len(all_data_combined_df) = Len(combine_df)
    /\ \A f \in 1..Len(combine_df) :
           /\ Len(combine_df[f]) = Len(input_dir[f])
           /\ \A i \in DOMAIN combine_df[f] : combine_df[f][i].File = f
           /\ \A i \in DOMAIN all_data_combined_df[f] :
                  all_data_combined_df[f][i].File = f
    /\ \A e \in output_dir :
           IF e.name[1] = 0
           THEN /\ pc = "done"
                /\ e.name[2] = "combined" => Len(e.table) = TotalRecords
           ELSE /\ e.name[1] <= CurFile
                /\ <<e.name[1], "csv">> \in FileNames
                /\ <<e.name[1], "audit">> \in FileNames
                /\ e.name[2] = "csv" => Len(e.table) = Len(input_dir[e.name[1]])
    /\ (pc \notin {"process", "done"} /\ CurFile > 0) =>
           /\ Len(combine_df) < CurFile
           /\ \A e \in output_dir : e.name[1] # CurFile

\* C7: a step that fails changes none of the output tables (the tables
\* process_file returned, the tables kept for the combined files, the CSV
\* files written), and every table among them holds one summary row for each
\* record of a file that was read to its end: never rows of a file that failed.
C7_NoPartialOutput ==
    [][ /\ pc' = "raised" => outputs' = outputs
        /\ CompleteTables' ]_vars

\* the second record of a file fails in the middle of its walk
C7_Witness ==
    /\ pc = "raised"
    /\ CurFile > 0
    /\ Len(records) = 2
    /\ Len(categorized_data) = 1
    /\ Len(all_pauses_data) > audit_base
    /\ ki > 0

\* C8: in a handled record with a valid event, the audit row of a valid event
\* holds its creation time minus that of the nearest valid event before it
\* (the record start when there is none), the audit row of an invalid event
\* holds no duration and the note 'Omitted ks', the last audit row holds the
\* stop minus the creation time of the last valid event, and a gap was
\* classified for the valid events and the last row only.
PrevValid(i) ==
    LET before == { j \in 1..(i - 1) : Valid(j) }
    IN  IF before = {} THEN 0 ELSE CHOOSE j \in before : \A k \in before : k <= j

CreatedOf(j) ==
    IF j = 0 THEN record_started_dt ELSE datetime64(keystrokes[j].attrib.created)

ExpectedAudit(i) ==
    IF i > Len(keystrokes)
    THEN AuditRow(Some(astype_int(Minus(record_ended_dt, CreatedOf(PrevValid(i))))), "")
    ELSE IF Valid(i)
    THEN AuditRow(Some(astype_int(Minus(CreatedOf(i), CreatedOf(PrevValid(i))))), "")
    ELSE AuditRow(None, "Omitted ks")

C8_MilestoneWalk ==
    (Handled /\ NValid > 0) =>
        /\ RecordAudit = [i \in 1..(Len(keystrokes) + 1) |-> ExpectedAudit(i)]
        /\ ncalls = NValid + 1

C8_Witness ==
    /\ Handled
    /\ Len(keystrokes) = 3
    /\ Valid(1)
    /\ ~Valid(2)
    /\ Valid(3)
    /\ RecordAudit[2].pause = None
    /\ RecordAudit[3].pause # None
    /\ RecordAudit[3].pause # RecordAudit[1].pause

\* C9: a handled record with more than one event, all invalid, has had no
\* categorize_pause call: its six bucket values and its total_duration are 0,
\* and its audit rows are one 'Omitted ks' row without duration per event.
C9_AllInvalid ==
    (Handled /\ Len(keystrokes) > 1 /\ NValid = 0) =>
        /\ ncalls = 0
        /\ Buckets(Summary) = <<0, 0, 0, 0, 0, 0>>
        /\ Summary.total_duration = 0
        /\ RecordAudit = [i \in 1..Len(keystrokes) |-> AuditRow(None, "Omitted ks")]

C9_Witness ==
    /\ Handled
    /\ Len(keystrokes) = 2
    /\ NValid = 0
    /\ Summary.record_duration >= 1000
    /\ Len(RecordAudit) = 2

\* C10 as stated: a negative gap handed to categorize_pause leaves a negative
\* bucket duration sum behind.
C10_NegativeBucketSums ==
    (call.made /\ call.pause_ms < 0) =>
        \/ pause_counts.duration_300 < 0
        \/ pause_counts.duration_500 < 0
        \/ pause_counts.duration_1000 < 0

\* C10 amended: a negative gap is taken as it is: it is added to
\* total_duration, no bucket counter or duration sum changes, and no bucket
\* duration sum is ever negative.
C10_NegativeGapTotalOnly ==
    /\ (call.made /\ call.pause_ms < 0) =>
           /\ Buckets(pause_counts) = Buckets(call.counts)
           /\ pause_counts.total_duration = call.counts.total_duration + call.pause_ms
    /\ pause_counts.duration_300 >= 0
    /\ pause_counts.duration_500 >= 0
    /\ pause_counts.duration_1000 >= 0

\* a valid event stamped 500 ms before the valid event in front of it
C10_Witness ==
    /\ pc = "walk"
    /\ call.made
    /\ call.pause_ms = -500
    /\ call.counts.duration_300 = 400
    /\ pause_counts.duration_300 = 400
    /\ pause_counts.total_duration = -100

====
